---- MODULE Spec2Model ----
(***************************************************************************)
(* CSRT tracking example (src/main.cpp): the frame-paced playback loop of  *)
(* show_video, the per-object tracker bookkeeping (ObjectTracker) and the  *)
(* start-up / exit paths of main.                                          *)
(*                                                                         *)
(* Time is counted in clock ticks of std::chrono::high_resolution_clock.   *)
(* The clock is finer than a millisecond (TicksPerMs ticks per ms), so the *)
(* truncation of duration_cast<milliseconds> is visible in the model.      *)
(* The external collaborators (cv::VideoCapture, cv::Tracker, cv::waitKey) *)
(* are the environment: their results are drawn nondeterministically.      *)
(***************************************************************************)
EXTENDS Integers, Sequences, FiniteSets, TLC

(* ------------------------------ bounds -------------------------------- *)

\* the longest video considered (frames actually held by the source)
MaxFrames == 6
\* the largest number of trackers a modelled input file creates
MaxTrackers == 2
\* clock ticks per millisecond (the clock resolution is finer than 1 ms)
TicksPerMs == 2
\* no behaviour is followed beyond this clock value
MaxTime == 16000
\* a key code that is neither "no key" nor ESC
AnyOtherKey == 32

(* ------------------------- program constants -------------------------- *)

\* cv::waitKey returns -1 when the timeout elapsed without a key
NoKey == -1
\* ESC, the quit key
ESC == 27
\* the grace window in seconds: fps_rounded * 3
GraceSeconds == 3
\* milliseconds per second
MsPerSecond == 1000
\* the width of the largest frame the program wants to display
DesiredWidth == 1024
\* the height of the largest frame the program wants to display
DesiredHeight == 768

TicksPerSecond == MsPerSecond * TicksPerMs

\* the keys cv::waitKey can report
Keys == {NoKey, ESC, AnyOtherKey}

(* --------------------------- pure functions --------------------------- *)

\* std::round of the non-negative rational num/den (halves round away from zero)
Round(num, den) == (2 * num + den) \div (2 * den)

\* the integer division of C++ (duration_cast truncates toward zero)
TruncDiv(a, b) == IF a >= 0 THEN a \div b ELSE -((-a) \div b)

\* std::chrono::duration_cast<std::chrono::milliseconds>(d).count()
ToMilliseconds(d) == TruncDiv(d, TicksPerMs)

\* fps_rounded = std::round(fps), fps given as the rational f[1]/f[2]
FpsRounded(f) == Round(f[1], f[2])

\* length_of_each_frame = std::round(1000000000.0 / fps), in clock ticks
FrameDuration(f) == Round(TicksPerSecond * f[2], f[1])

\* the sentinel rectangle cv::Rect2d(-1.0, -1.0, -1.0, -1.0)
SentinelRect == "sentinel"
\* any rectangle reported by the tracker or given at construction
ValidRect == "box"

\* the names of the trackers initialize_trackers creates for a file
TrackerNames(file) ==
    CASE file = "input_3733.mp4" -> <<"ball", "p1", "p2", "p3">>
      [] file = "input_3750.mp4" -> <<"p1", "p2">>
      [] OTHER -> << >>

\* the command lines: no argument, a path that cannot be opened, videos
AllFiles == {"", "missing.mp4", "input_3733.mp4", "input_3750.mp4", "other.mp4"}
Files == {f \in AllFiles : Len(TrackerNames(f)) <= MaxTrackers}

\* cap.open(filename); cap.isOpened(): an empty or unreadable path fails
IsOpened(file) == file \notin {"", "missing.mp4"}

\* the nominal frame rates of the videos, as rationals <<num, den>>
FpsChoices == {<<1, 1>>}

\* the frame size of the videos, <<width, height>>
FullHD == <<1920, 1080>>

\* lines 107-121: the zoom factor of a frame larger than the desired size,
\* as the rational <<num, den>>: the larger of the two ratios
ZoomFactor(size) ==
    IF DesiredWidth * size[2] >= DesiredHeight * size[1]
    THEN <<DesiredWidth, size[1]>>
    ELSE <<DesiredHeight, size[2]>>

\* lines 107-128: the size every frame is resized to; a frame that exceeds
\* the desired size in either dimension is zoomed, any other keeps its size
DisplaySize(size) ==
    IF size[1] > DesiredWidth \/ size[2] > DesiredHeight
    THEN LET factor == ZoomFactor(size)
         IN  <<Round(factor[1] * size[1], factor[2]),
               Round(factor[1] * size[2], factor[2])>>
    ELSE size

\* mutant of ProgressReport: the last frame gets no report of its own
ProgressReport_NoFinal(counter, total, fps) == counter % fps = 0

\* lines 216-217: the frames the progress report is printed for
ProgressReport(counter, total, fps) ==
    counter + 1 >= total \/ counter % fps = 0

(* ------------------------------- state -------------------------------- *)

VARIABLES
    file,           \* argv[1], "" when no argument was given
    src_frames,     \* the frames the source holds (CAP_PROP_FRAME_COUNT)
    src_fps,        \* the nominal frame rate of the source (CAP_PROP_FPS)
    src_size,       \* the frame size of the source, <<width, height>>
    scene,          \* what the tracked objects do in the video
    load,           \* how long the work on a frame, and the user, take
    pc,             \* where main / show_video stands
    exit_code,      \* the value main returned, -1 while it runs
    error,          \* the exception main caught
    fps_rounded,    \* global fps_rounded
    total_frames,   \* global total_frames
    frame_duration, \* global frame_duration, in clock ticks
    desired_size,   \* global desired_size, <<width, height>>
    pos,            \* cap's position: the index of the next frame it decodes
    mat,            \* the source index of the frame held by mat, -1 when empty
    all_trackers,   \* global all_trackers
    ti,             \* the position of the tracker-update loop in all_trackers
    frame_counter,  \* show_video's frame_counter
    time_to_show_next_frame,          \* show_video's presentation deadline
    number_of_milliseconds_to_pause,  \* the timeout handed to cv::waitKey
    key,            \* the key the last cv::waitKey returned
    now,            \* std::chrono::high_resolution_clock::now()
    shown,          \* the source indices of the frames show_video displayed
    drawn,          \* the trackers whose rectangle was drawn onto mat
    preview_shown,  \* pause_on_first_frame displayed the first frame
    outcome,        \* per tracker: what update did on the current frame
    misses,         \* per tracker: the consecutive failed updates so far
    start_time,     \* the presentation deadline show_video started with
    paused,         \* the playback was paused at least once
    reports,        \* the frame indices the progress report was printed for
    previous_frame_counter,  \* show_video's previous_frame_counter
    trace,          \* the calls made for the current frame, in order
    alive,          \* the trackers that were valid when the frame was decoded
    last_fed,       \* per tracker: the source frame it was last advanced on
    refed,          \* per tracker: the source frames it was advanced on twice
    slow            \* which frame's work took longer than frame_duration
                    \* since the last pause: "this", "earlier" or "none"

vars == <<file, src_frames, src_fps, src_size, scene, load, pc, exit_code,
          error, fps_rounded, total_frames, frame_duration, desired_size,
          pos, mat, all_trackers, ti, frame_counter,
          time_to_show_next_frame, number_of_milliseconds_to_pause, key,
          now, shown, drawn, preview_shown, outcome, misses, start_time,
          paused, reports, previous_frame_counter, trace, alive, last_fed,
          refed, slow>>

source   == <<file, src_frames, src_fps, src_size, scene, load>>
globals  == <<fps_rounded, total_frames, frame_duration, desired_size>>
history  == <<outcome, misses, last_fed, refed>>
\* the progress report; previous_timestamp, which only enters the printed
\* frame rate, is left out
progress == <<reports, previous_frame_counter>>

Trackers == 1 .. Len(all_trackers)

\* the time a piece of work, or a user, may take, in clock ticks: in a run
\* under light load nothing or less than a millisecond, in a run under heavy
\* load nothing or more than a whole frame, in a run under no load nothing
Delays ==
    CASE load = "light" -> {0, 1}
      [] load = "heavy" -> {0, frame_duration + 1}
      [] OTHER -> {0}

\* the program's variables at the start of main
Boot ==
    /\ pc = "main"
    /\ exit_code = -1
    /\ error = "none"
    /\ fps_rounded = 0
    /\ total_frames = 0
    /\ frame_duration = 0
    /\ pos = 0
    /\ mat = -1
    /\ all_trackers = << >>
    /\ ti = 1
    /\ frame_counter = 0
    /\ time_to_show_next_frame = 0
    /\ number_of_milliseconds_to_pause = 0
    /\ key = NoKey
    /\ now = 0
    /\ shown = << >>
    /\ drawn = {}
    /\ preview_shown = FALSE
    /\ outcome = << >>
    /\ misses = << >>
    /\ start_time = 0
    /\ paused = FALSE
    /\ desired_size = <<DesiredWidth, DesiredHeight>>
    /\ reports = << >>
    /\ previous_frame_counter = 0
    /\ trace = << >>
    /\ alive = {}
    /\ last_fed = << >>
    /\ refed = << >>
    /\ slow = "none"

\* the start of main on any of the command lines and videos
Init ==
    /\ file \in Files
    /\ src_frames \in 1 .. MaxFrames
    /\ src_fps \in FpsChoices
    /\ src_size = FullHD
    /\ scene = "any"
    /\ load \in {"light", "heavy"}
    /\ Boot

(* ------------------------------ start-up ------------------------------ *)

\* mutant of Throw: the exception reaches catch (...) and main returns 2
Throw_Unknown(what) ==
    /\ error' = what
    /\ exit_code' = 2
    /\ pc' = "exit"

\* main's catch (const std::exception &): report and return 1
Throw(what) ==
    /\ error' = what
    /\ exit_code' = 1
    /\ pc' = "exit"

\* initialize_video: open the file or throw, then set the timing globals
InitializeVideo ==
    /\ pc = "main"
    /\ IF ~IsOpened(file)
       THEN /\ Throw("OpenError")
            /\ UNCHANGED globals
       ELSE /\ fps_rounded' = FpsRounded(src_fps)
            /\ total_frames' = src_frames
            /\ frame_duration' = FrameDuration(src_fps)
            /\ desired_size' = DisplaySize(src_size)
            /\ pc' = "first"
            /\ UNCHANGED <<error, exit_code>>
    /\ UNCHANGED <<progress, trace, alive, slow,
                   source, pos, mat, all_trackers, ti, frame_counter,
                   time_to_show_next_frame, number_of_milliseconds_to_pause,
                   key, now, shown, drawn, preview_shown, history,
                   start_time, paused>>

\* mutant of GetFirstFrame: the source is not rewound after the decode
GetFirstFrame_NoRewind ==
    /\ pc = "first"
    /\ mat' = 0
    /\ pos' = 1
    /\ pc' = "trackers"
    /\ UNCHANGED <<progress, trace, alive, slow,
                   source, exit_code, error, globals, all_trackers, ti,
                   frame_counter, time_to_show_next_frame,
                   number_of_milliseconds_to_pause, key, now, shown, drawn,
                   preview_shown, history, start_time, paused>>

\* get_first_frame: seek to 0, decode one frame, seek back to 0
GetFirstFrame ==
    /\ pc = "first"
    /\ mat' = 0
    /\ pos' = 0
    /\ pc' = "trackers"
    /\ UNCHANGED <<progress, trace, alive, slow,
                   source, exit_code, error, globals, all_trackers, ti,
                   frame_counter, time_to_show_next_frame,
                   number_of_milliseconds_to_pause, key, now, shown, drawn,
                   preview_shown, history, start_time, paused>>

\* ObjectTracker::ObjectTracker: a tracker initialised on the first frame
ObjectTracker(n) ==
    [name |-> n, is_valid |-> TRUE, rect |-> ValidRect, last_valid |-> 0]

\* initialize_trackers (enable_object_tracking is true): one tracker per
\* hard-coded object of the file
InitializeTrackers ==
    /\ pc = "trackers"
    /\ LET names == TrackerNames(file) IN
       /\ all_trackers' = [i \in 1 .. Len(names) |-> ObjectTracker(names[i])]
       /\ outcome' = [i \in 1 .. Len(names) |-> "none"]
       /\ misses' = [i \in 1 .. Len(names) |-> 0]
       /\ last_fed' = [i \in 1 .. Len(names) |-> mat]
       /\ refed' = [i \in 1 .. Len(names) |-> {}]
    /\ pc' = "preview"
    /\ UNCHANGED <<progress, trace, alive, slow,
                   source, exit_code, error, globals, pos, mat, ti,
                   frame_counter, time_to_show_next_frame,
                   number_of_milliseconds_to_pause, key, now, shown, drawn,
                   preview_shown, start_time, paused>>

\* pause_on_first_frame: show the first frame, block until any key
PauseOnFirstFrame ==
    /\ pc = "preview"
    /\ preview_shown' = TRUE
    /\ \E k \in Keys \ {NoKey}, d \in Delays :
         /\ now + d <= MaxTime
         /\ key' = k
         /\ now' = now + d
    /\ pc' = "show_video"
    /\ UNCHANGED <<progress, trace, alive, slow,
                   source, exit_code, error, globals, pos, mat, all_trackers,
                   ti, frame_counter, time_to_show_next_frame,
                   number_of_milliseconds_to_pause, shown, drawn, history,
                   start_time, paused>>

(* ------------------------------ playback ------------------------------ *)

\* show_video, lines 199-202: the counter and the first deadline
ShowVideo ==
    /\ pc = "show_video"
    /\ frame_counter' = 0
    /\ time_to_show_next_frame' = now
    /\ start_time' = now
    /\ previous_frame_counter' = 0
    /\ reports' = << >>
    /\ pc' = "read"
    /\ UNCHANGED <<trace, alive, slow,
                   source, exit_code, error, globals, pos, mat, all_trackers,
                   ti, number_of_milliseconds_to_pause, key, now, shown,
                   drawn, preview_shown, history, paused>>

\* one call made while a frame is processed: what is called and on what
Call(what, arg) == <<what, arg>>


\* mutant of ReadFrame: an empty mat does not end the loop
ReadFrame_Continue ==
    /\ pc = "read"
    /\ \E decoded \in BOOLEAN :
         IF pos < src_frames /\ decoded
         THEN /\ mat' = pos
              /\ pos' = pos + 1
              /\ IF ProgressReport(frame_counter, total_frames, fps_rounded)
                 THEN /\ reports' = Append(reports, frame_counter)
                      /\ previous_frame_counter' = frame_counter
                 ELSE UNCHANGED progress
              /\ trace' = <<Call("decode", pos)>> \o
                             IF src_size /= desired_size
                             THEN <<Call("resize", pos)>>
                             ELSE << >>
              /\ pc' = IF Len(all_trackers) = 0 THEN "draw" ELSE "update"
         ELSE /\ mat' = -1
              /\ pos' = pos
              /\ trace' = <<Call("decode", -1)>>
              /\ pc' = "read"
              /\ UNCHANGED progress
    /\ ti' = 1
    /\ drawn' = {}
    /\ outcome' = [i \in Trackers |-> "none"]
    /\ alive' = {i \in Trackers : all_trackers[i].is_valid}
    /\ UNCHANGED <<slow,
                   source, exit_code, error, globals, all_trackers,
                   frame_counter, time_to_show_next_frame,
                   number_of_milliseconds_to_pause, key, now, shown,
                   preview_shown, misses, last_fed, refed, start_time,
                   paused>>

\* cap >> mat: the next frame, or an empty mat at the end of the stream or
\* when the frame does not decode; the loop breaks on an empty mat
ReadFrame ==
    /\ pc = "read"
    /\ \E decoded \in BOOLEAN :
         IF pos < src_frames /\ decoded
         THEN /\ mat' = pos
              /\ pos' = pos + 1
              /\ IF ProgressReport(frame_counter, total_frames, fps_rounded)
                 THEN /\ reports' = Append(reports, frame_counter)
                      /\ previous_frame_counter' = frame_counter
                 ELSE UNCHANGED progress
              /\ trace' = <<Call("decode", pos)>> \o
                             IF src_size /= desired_size
                             THEN <<Call("resize", pos)>>
                             ELSE << >>
              /\ pc' = IF Len(all_trackers) = 0 THEN "draw" ELSE "update"
         ELSE /\ mat' = -1
              /\ pos' = pos
              /\ trace' = <<Call("decode", -1)>>
              /\ pc' = "done"
              /\ UNCHANGED progress
    /\ ti' = 1
    /\ drawn' = {}
    /\ outcome' = [i \in Trackers |-> "none"]
    /\ alive' = {i \in Trackers : all_trackers[i].is_valid}
    /\ UNCHANGED <<slow,
                   source, exit_code, error, globals, all_trackers,
                   frame_counter, time_to_show_next_frame,
                   number_of_milliseconds_to_pause, key, now, shown,
                   preview_shown, misses, last_fed, refed, start_time,
                   paused>>

\* mutant of Expired: the window ends one frame early
Expired_AtGrace(counter, last_valid, fps) ==
    counter >= last_valid + fps * GraceSeconds

\* line 255: the object was last seen more than the grace window ago
Expired(counter, last_valid, fps) == counter > last_valid + fps * GraceSeconds

\* mutant of Updated: a success is recorded for the frame after this one
Updated_NextFrame(ot, ok, counter, fps) ==
    IF ok
    THEN [ot EXCEPT !.rect = ValidRect, !.last_valid = counter + 1]
    ELSE [ot EXCEPT !.rect = SentinelRect,
                    !.is_valid = ~Expired(counter, ot.last_valid, fps)]

\* lines 245-260: what one call of tracker->update leaves in the tracker
Updated(ot, ok, counter, fps) ==
    IF ok
    THEN [ot EXCEPT !.rect = ValidRect, !.last_valid = counter]
    ELSE [ot EXCEPT !.rect = SentinelRect,
                    !.is_valid = ~Expired(counter, ot.last_valid, fps)]

\* the frames at which an object may leave the picture in a video of the
\* scene "exit"
ExitFrames == {11}

\* what tracker->update may report on the current frame: in a video of the
\* scene "any" success or failure at will; in a video of the scene "exit" an
\* object is found until it leaves the picture, and never again after that
UpdateResults(ot) ==
    CASE scene = "any" -> BOOLEAN
      [] ot.rect = SentinelRect -> {FALSE}
      [] frame_counter \in ExitFrames -> BOOLEAN
      [] OTHER -> {TRUE}

\* mutant of ShouldUpdate: the validity flag is not consulted
ShouldUpdate_Always(ot) == TRUE

\* line 242: only a valid tracker is updated
ShouldUpdate(ot) == ot.is_valid

\* one round of the loop over all_trackers (lines 240-262): a tracker that
\* is not valid is skipped, a valid one is updated on the current frame
UpdateTracker ==
    /\ pc = "update"
    /\ IF ShouldUpdate(all_trackers[ti])
       THEN \E ok \in UpdateResults(all_trackers[ti]) :
              /\ all_trackers' =
                   [all_trackers EXCEPT
                      ![ti] = Updated(@, ok, frame_counter, fps_rounded)]
              /\ outcome' = [outcome EXCEPT ![ti] = IF ok THEN "ok" ELSE "fail"]
              /\ misses' = [misses EXCEPT ![ti] = IF ok THEN 0 ELSE @ + 1]
              /\ last_fed' = [last_fed EXCEPT ![ti] = mat]
              /\ refed' = [refed EXCEPT
                             ![ti] = IF last_fed[ti] = mat
                                     THEN @ \cup {mat} ELSE @]
              /\ trace' = Append(trace, Call("update", ti))
       ELSE /\ outcome' = [outcome EXCEPT ![ti] = "skipped"]
            /\ UNCHANGED <<all_trackers, misses, last_fed, refed, trace>>
    /\ ti' = ti + 1
    /\ pc' = IF ti = Len(all_trackers) THEN "draw" ELSE "update"
    /\ UNCHANGED <<progress, alive, slow,
                   source, exit_code, error, globals, pos, mat, frame_counter,
                   time_to_show_next_frame, number_of_milliseconds_to_pause,
                   key, now, shown, drawn, preview_shown, start_time, paused>>

\* lines 265-271: the trackers whose rectangle is drawn onto the frame
Drawable(trackers, counter) ==
    {i \in 1 .. Len(trackers) : trackers[i].last_valid = counter}

\* lines 265-271: the calls of cv::rectangle, in the order of all_trackers
Rectangles(trackers, counter) ==
    LET all  == [i \in 1 .. Len(trackers) |-> i]
        hits == SelectSeq(all, LAMBDA i : i \in Drawable(trackers, counter))
    IN  [n \in 1 .. Len(hits) |-> Call("rectangle", hits[n])]

\* mutant of MillisecondsToPause: the timeout is not raised to 1
MillisecondsToPause_NoFloor(deadline, t) == ToMilliseconds(deadline - t)

\* mutant of MillisecondsToPause: a late frame waits a whole frame
MillisecondsToPause_WholeFrame(deadline, t) ==
    LET ms == ToMilliseconds(deadline - t)
    IN  IF ms <= 0 THEN ToMilliseconds(frame_duration) ELSE ms

\* lines 273-283: the timeout of the key wait, at least one millisecond
MillisecondsToPause(deadline, t) ==
    LET ms == ToMilliseconds(deadline - t)
    IN  IF ms <= 0 THEN 1 ELSE ms

\* lines 265-283: draw the rectangles, read the clock (the work on this
\* frame took d ticks) and compute the timeout of the key wait
DrawAndPace ==
    /\ pc = "draw"
    /\ drawn' = Drawable(all_trackers, frame_counter)
    /\ trace' = trace \o Rectangles(all_trackers, frame_counter)
    /\ \E d \in Delays :
         /\ now + d <= MaxTime
         /\ now' = now + d
         /\ number_of_milliseconds_to_pause' =
              MillisecondsToPause(time_to_show_next_frame, now + d)
         /\ slow' = IF d > frame_duration THEN "this" ELSE slow
    /\ pc' = "wait"
    /\ UNCHANGED <<progress, alive,
                   source, exit_code, error, globals, pos, mat, all_trackers,
                   ti, frame_counter, time_to_show_next_frame, key, shown,
                   preview_shown, history, start_time, paused>>

\* mutant of NextDeadline: the deadline is taken from the clock
NextDeadline_FromNow(deadline, duration) == now' + duration

\* mutant of NextDeadline: the duration is subtracted
NextDeadline_Backward(deadline, duration) == deadline - duration

\* line 304: the deadline of the next frame
NextDeadline(deadline, duration) == deadline + duration

\* lines 285-288: the call of cv::waitKey with the timeout, made only when
\* the timeout is positive
Waited ==
    trace \o IF number_of_milliseconds_to_pause > 0
             THEN <<Call("waitKey", number_of_milliseconds_to_pause)>>
             ELSE << >>

\* line 294: the call of cv::waitKey(-1) that ends a pause
Blocked == Append(trace, Call("waitKey", -1))

\* lines 303-305: show the frame, move the deadline, count the frame; calls
\* are the calls made for the frame before it
Present(deadline, calls) ==
    /\ shown' = Append(shown, mat)
    /\ trace' = Append(calls, Call("imshow", mat))
    /\ time_to_show_next_frame' = NextDeadline(deadline, frame_duration)
    /\ frame_counter' = frame_counter + 1
    /\ pc' = "read"

\* cv::waitKey(number_of_milliseconds_to_pause) ran into its timeout (or
\* was not called, the timeout not being positive): the frame is presented
WaitTimeout ==
    /\ pc = "wait"
    /\ LET t == IF number_of_milliseconds_to_pause > 0
                THEN now + number_of_milliseconds_to_pause * TicksPerMs
                ELSE now
       IN  /\ t <= MaxTime
           /\ now' = t
    /\ key' = NoKey
    /\ Present(time_to_show_next_frame, Waited)
    /\ slow' = IF slow = "this" THEN "earlier" ELSE slow
    /\ UNCHANGED <<progress, alive,
                   source, exit_code, error, globals, pos, mat, all_trackers,
                   ti, number_of_milliseconds_to_pause, drawn, preview_shown,
                   history, start_time, paused>>

\* mutant of Pauses: ESC is not excluded
Pauses_AnyKey(k) == k /= NoKey

\* line 289: a key that is not ESC pauses the video
Pauses(k) == k /= NoKey /\ k /= ESC

\* line 298: ESC quits
Quits(k) == k = ESC

\* the moments within the timeout at which a key may arrive
KeyDelays == {d \in Delays : d <= number_of_milliseconds_to_pause * TicksPerMs}

\* cv::waitKey(number_of_milliseconds_to_pause) returned ESC: throw,
\* the frame is not shown
WaitQuit ==
    /\ pc = "wait"
    /\ number_of_milliseconds_to_pause > 0
    /\ \E d \in KeyDelays :
         /\ now + d <= MaxTime
         /\ now' = now + d
    /\ \E k \in Keys \ {NoKey} :
         /\ ~Pauses(k) /\ Quits(k)
         /\ key' = k
    /\ trace' = Waited
    /\ Throw("UserQuit")
    /\ UNCHANGED <<progress, alive, slow,
                   source, globals, pos, mat, all_trackers, ti, frame_counter,
                   time_to_show_next_frame, number_of_milliseconds_to_pause,
                   shown, drawn, preview_shown, history, start_time, paused>>

\* cv::waitKey(number_of_milliseconds_to_pause) returned another key: the
\* loop blocks in cv::waitKey(-1)
WaitPause ==
    /\ pc = "wait"
    /\ number_of_milliseconds_to_pause > 0
    /\ \E d \in KeyDelays :
         /\ now + d <= MaxTime
         /\ now' = now + d
    /\ \E k \in Keys \ {NoKey} :
         /\ Pauses(k)
         /\ key' = k
    /\ paused' = TRUE
    /\ trace' = Waited
    /\ slow' = "none"
    /\ pc' = "paused"
    /\ UNCHANGED <<progress, alive,
                   source, exit_code, error, globals, pos, mat, all_trackers,
                   ti, frame_counter, time_to_show_next_frame,
                   number_of_milliseconds_to_pause, shown, drawn,
                   preview_shown, history, start_time>>

\* mutant of Resume: the deadline is not reset after the pause
Resume_NoReset ==
    /\ pc = "paused"
    /\ \E d \in Delays :
         /\ now + d <= MaxTime
         /\ now' = now + d
    /\ Present(time_to_show_next_frame, Blocked)
    /\ \E k \in Keys \ {NoKey} :
         /\ ~Quits(k)
         /\ key' = k
    /\ UNCHANGED <<progress, alive, slow,
                   source, exit_code, error, globals, pos, mat, all_trackers,
                   ti, number_of_milliseconds_to_pause, drawn, preview_shown,
                   history, start_time, paused>>

\* cv::waitKey(-1) returned a key that is not ESC: the deadline is reset to
\* the current time and the frame is presented
Resume ==
    /\ pc = "paused"
    /\ \E d \in Delays :
         /\ now + d <= MaxTime
         /\ now' = now + d
         /\ Present(now + d, Blocked)
    /\ \E k \in Keys \ {NoKey} :
         /\ ~Quits(k)
         /\ key' = k
    /\ UNCHANGED <<progress, alive, slow,
                   source, exit_code, error, globals, pos, mat, all_trackers,
                   ti, number_of_milliseconds_to_pause, drawn, preview_shown,
                   history, start_time, paused>>

\* cv::waitKey(-1) returned ESC: the deadline is reset, then throw
ResumeQuit ==
    /\ pc = "paused"
    /\ \E d \in Delays :
         /\ now + d <= MaxTime
         /\ now' = now + d
         /\ time_to_show_next_frame' = now + d
    /\ \E k \in Keys \ {NoKey} :
         /\ Quits(k)
         /\ key' = k
    /\ trace' = Blocked
    /\ Throw("UserQuit")
    /\ UNCHANGED <<progress, alive, slow,
                   source, globals, pos, mat, all_trackers, ti, frame_counter,
                   number_of_milliseconds_to_pause, shown, drawn,
                   preview_shown, history, start_time, paused>>

\* main, lines 334-336 and 349: block until any key, return 0
Done ==
    /\ pc = "done"
    /\ key' \in Keys \ {NoKey}
    /\ exit_code' = 0
    /\ pc' = "exit"
    /\ UNCHANGED <<progress, trace, alive, slow,
                   source, error, globals, pos, mat, all_trackers, ti, now,
                   frame_counter, time_to_show_next_frame,
                   number_of_milliseconds_to_pause, shown, drawn,
                   preview_shown, history, start_time, paused>>

Next ==
    \/ InitializeVideo
    \/ GetFirstFrame
    \/ InitializeTrackers
    \/ PauseOnFirstFrame
    \/ ShowVideo
    \/ ReadFrame
    \/ UpdateTracker
    \/ DrawAndPace
    \/ WaitTimeout
    \/ WaitQuit
    \/ WaitPause
    \/ Resume
    \/ ResumeQuit
    \/ Done

Spec == Init /\ [][Next]_vars

(* --------------------- a 30 fps video, left to play -------------------- *)

\* a frame rate of 30 frames per second
Fps30 == <<30, 1>>

\* the videos played at 30 fps: one of 90 frames without trackers, one of
\* 103 frames with two trackers
Videos30 == {<<"other.mp4", 90>>, <<"input_3750.mp4", 103>>}

\* the start of main on one of the 30 fps videos
Init30 ==
    /\ \E v \in Videos30 :
         /\ file = v[1]
         /\ src_frames = v[2]
    /\ src_fps = Fps30
    /\ src_size = FullHD
    /\ scene = "exit"
    /\ load = "none"
    /\ Boot

\* the steps of a run in which no key is pressed while the video plays
Next30 ==
    \/ InitializeVideo
    \/ GetFirstFrame
    \/ InitializeTrackers
    \/ PauseOnFirstFrame
    \/ ShowVideo
    \/ ReadFrame
    \/ UpdateTracker
    \/ DrawAndPace
    \/ WaitTimeout
    \/ Done

Spec30 == Init30 /\ [][Next30]_vars

(* ------------------- short videos, with a user at hand ----------------- *)

\* the longest video of the runs checked for termination
LiveFrames == 3

\* the start of main on a short video under light load
InitLive ==
    /\ file \in Files
    /\ src_frames \in 1 .. LiveFrames
    /\ src_fps \in FpsChoices
    /\ src_size = FullHD
    /\ scene = "any"
    /\ load = "light"
    /\ Boot

\* the steps that end an unbounded cv::waitKey(-1)
KeyPressed == PauseOnFirstFrame \/ Resume \/ ResumeQuit \/ Done

\* the program runs on as long as it has a step to take, and every
\* cv::waitKey(-1) eventually gets its key
Fairness == WF_vars(Next) /\ WF_vars(KeyPressed)

SpecLive == InitLive /\ [][Next]_vars /\ Fairness

(* ------------------------- tracker lifecycle -------------------------- *)

\* the grace window of the specification: round(fps) * 3 frames
GracePeriodFrames == fps_rounded * GraceSeconds

\* tracker i is Active
Active(i) == all_trackers[i].is_valid

\* this step is the call of tracker i's update on frame frame_counter
UpdateOf(i) == pc = "update" /\ ti = i /\ Active(i)

\* the rules of C1 for tracker i over one step
C1_Rules(i) ==
    LET before == all_trackers[i]
        after  == all_trackers'[i]
        age    == frame_counter - before.last_valid
    IN  /\ UpdateOf(i) =>
              /\ outcome'[i] \in {"ok", "fail"}
              /\ ~after.is_valid <=>
                     (outcome'[i] = "fail" /\ age > GracePeriodFrames)
              /\ (outcome'[i] = "fail" /\ age <= GracePeriodFrames) =>
                     after.is_valid /\ after.last_valid = before.last_valid
              /\ outcome'[i] = "ok" =>
                     after.is_valid /\ after.last_valid = frame_counter
        /\ (~UpdateOf(i) /\ before.is_valid) => after = before

\* C1: an Active object becomes Lost on frame i exactly when its update on
\* frame i fails and i - last_seen_frame_index > grace_period_frames
\* (= round(fps) * 3); a failed update within the grace window leaves it
\* Active (and it is updated again on every later frame, being Active); a
\* successful update leaves it Active with last_seen_frame_index = i.
\* Every Active object is updated on every frame that reaches the drawing.
C1_ActiveToLost ==
    /\ [][\A i \in Trackers : C1_Rules(i)]_vars
    /\ [](pc \in {"draw", "wait", "paused"} =>
            \A i \in Trackers : Active(i) => outcome[i] \in {"ok", "fail"})

\* C1 witness: an object seen on a frame after the first was lost later,
\* while another object is Active after a miss within the grace window
C1_Witness ==
    \E i, j \in Trackers :
        /\ ~Active(i) /\ all_trackers[i].last_valid > 0
        /\ Active(j) /\ outcome[j] = "fail"
        /\ frame_counter - all_trackers[j].last_valid = GracePeriodFrames

\* C2 (as claimed): after exactly grace_period_frames consecutive failed
\* updates an object is still Active, and the (grace_period_frames + 1)-th
\* consecutive failed update makes it Lost, also for an object whose update
\* never succeeded.
C2_GraceCount ==
    \A i \in Trackers :
        /\ misses[i] <= GracePeriodFrames => Active(i)
        /\ misses[i] >= GracePeriodFrames + 1 => ~Active(i)

\* C3: Lost is terminal: a Lost object is never passed to update again,
\* never becomes Active again, keeps its last_seen_frame_index, and its box
\* is never drawn (neither on the frame that lost it nor on a later one).
C3_LostIsTerminal ==
    /\ [][\A i \in Trackers :
            ~Active(i) =>
                /\ all_trackers'[i] = all_trackers[i]
                /\ misses'[i] = misses[i]
                /\ outcome'[i] \in {outcome[i], "none", "skipped"}]_vars
    /\ [](\A i \in Trackers : ~Active(i) => i \notin drawn)

\* C3 witness: a Lost object was skipped on a later frame, on which another
\* object was updated successfully and drawn
C3_Witness ==
    \E i, j \in Trackers :
        /\ ~Active(i) /\ outcome[i] = "skipped"
        /\ outcome[j] = "ok" /\ j \in drawn

\* C4 (as claimed): on every processed frame, frame 0 included, an object's
\* box is drawn if and only if its last_seen_frame_index is the current
\* frame index, and the drawn objects are exactly those whose update
\* succeeded on that frame: an object whose update failed on the current
\* frame (box = sentinel) is not drawn.
C4_DrawnIffUpdated ==
    pc \in {"wait", "paused"} =>
        \A i \in Trackers :
            /\ i \in drawn <=> all_trackers[i].last_valid = frame_counter
            /\ i \in drawn <=> outcome[i] = "ok"
            /\ all_trackers[i].rect = SentinelRect => i \notin drawn

(* ------------------------------- pacing ------------------------------- *)

\* show_video has been entered
Started ==
    \/ pc \in {"read", "update", "draw", "wait", "paused", "done"}
    \/ pc = "exit" /\ preview_shown

\* C5: in a run with no pause, after n displayed frames the presentation
\* deadline is its initial value plus exactly n * frame_duration, whatever
\* the processing times were.
C5_DeadlineAccumulates ==
    (Started /\ ~paused) =>
        /\ Len(shown) = frame_counter
        /\ time_to_show_next_frame =
               start_time + Len(shown) * frame_duration

\* C5 witness: four frames displayed without a pause, playback more than a
\* frame behind its deadline
C5_Witness ==
    /\ Started /\ ~paused
    /\ Len(shown) = 4
    /\ start_time > 0
    /\ now > time_to_show_next_frame + frame_duration

\* C6 (as claimed): the presentation deadline never decreases from one
\* iteration of the loop to the next, pauses included.
C6_DeadlineMonotonic ==
    [][pc' /= "exit" =>
          time_to_show_next_frame' >= time_to_show_next_frame]_vars

\* C6 (amended): the deadline never decreases over a step that does not end
\* a pause; the step that ends a pause sets it from the clock, to the time
\* of the resume plus one frame_duration when playback goes on (to the time
\* of the resume when ESC ended the pause), so it decreases exactly when the
\* resume comes more than one frame_duration before the previous deadline.
C6_MonotonicUnlessResumed ==
    [][/\ pc /= "paused" =>
              time_to_show_next_frame' >= time_to_show_next_frame
       /\ (pc = "paused" /\ pc' = "read") =>
              /\ time_to_show_next_frame' = now' + frame_duration
              /\ time_to_show_next_frame' < time_to_show_next_frame
                     <=> now' + frame_duration < time_to_show_next_frame
       /\ (pc = "paused" /\ pc' = "exit") =>
              time_to_show_next_frame' = now']_vars

\* C6 witness: playback resumed from a pause with a deadline that lies
\* before the schedule of the frames shown so far
C6_Witness ==
    /\ pc = "read" /\ paused /\ Pauses(key)
    /\ frame_counter >= 2
    /\ time_to_show_next_frame = now + frame_duration
    /\ time_to_show_next_frame < start_time + frame_counter * frame_duration

\* C7: a key other than ESC received during the bounded wait puts the loop
\* into Paused, where it stays until the next key; entering the pause
\* changes neither the frame counter, the deadline nor any tracker; the
\* resume with a key other than ESC sets the deadline to the time of the
\* resume plus one frame_duration, whatever the pause lasted and however
\* late playback was, leaves the trackers alone and presents the paused
\* frame as any other frame (the counter advances by one, as without pause).
C7_PauseAndResume ==
    [][/\ (pc = "wait" /\ Pauses(key')) =>
              /\ pc' = "paused"
              /\ UNCHANGED <<frame_counter, all_trackers, shown, pos, mat,
                             time_to_show_next_frame>>
       /\ pc = "paused" => pc' \in {"read", "exit"}
       /\ (pc = "paused" /\ key' /= ESC) =>
              /\ pc' = "read"
              /\ time_to_show_next_frame' = now' + frame_duration
              /\ all_trackers' = all_trackers
              /\ frame_counter' = frame_counter + 1
              /\ shown' = Append(shown, mat)
              /\ pos' = pos]_vars

\* C7 witness: trackers exist, playback was more than a frame late when it
\* was paused, and it has just resumed
C7_Witness ==
    /\ pc = "read" /\ paused /\ Pauses(key)
    /\ Len(all_trackers) > 0
    /\ \E i \in Trackers : ~Active(i)
    /\ time_to_show_next_frame = now + frame_duration
    /\ now > start_time + (frame_counter + 1) * frame_duration

(* ----------------------- end of stream and exits ---------------------- *)

\* the frame indices 0 .. n-1 in increasing order
FirstFrames(n) == [i \in 1 .. n |-> i - 1]

\* C8: without a quit key the loop displays the frames 0 .. total_frames-1
\* once each, in increasing order, then ends on the end of the stream with
\* no error and main returns 0; a frame that fails to decode ends playback
\* the same way (the frames before it were displayed in order).
C8_EndOfStream ==
    /\ Started => shown = FirstFrames(frame_counter)
    /\ (Started /\ pc \in {"done", "exit"} /\ error /= "UserQuit") =>
           /\ error = "none"
           /\ mat = -1
           /\ pc = "exit" => exit_code = 0
           /\ pos = src_frames => shown = FirstFrames(total_frames)

\* C8 witness: a whole video was played, with a pause, and main returned 0
C8_Witness ==
    /\ pc = "exit" /\ exit_code = 0 /\ paused
    /\ pos = src_frames /\ src_frames = MaxFrames
    /\ Len(shown) = total_frames

\* C9: ESC returned by the bounded wait, or ending a pause, terminates
\* playback at once with UserQuit and exit code 1: the current frame is not
\* displayed, nothing is decoded or given to a tracker afterwards; and
\* playback ends in no other way than this or an empty frame.
C9_UserQuit ==
    /\ [][/\ (pc \in {"wait", "paused"} /\ key' = ESC) =>
                 /\ pc' = "exit" /\ error' = "UserQuit" /\ exit_code' = 1
                 /\ UNCHANGED <<shown, pos, mat, all_trackers, frame_counter,
                                misses>>
          /\ pc /= "exit"]_vars
    /\ []((Started /\ pc \in {"done", "exit"}) =>
             \/ error = "UserQuit" /\ key = ESC /\ exit_code = 1
             \/ error = "none" /\ mat = -1 /\ exit_code \in {-1, 0})

\* C9 witness: ESC ended a pause after some frames were displayed
C9_Witness ==
    /\ pc = "exit" /\ error = "UserQuit" /\ exit_code = 1
    /\ paused /\ time_to_show_next_frame = now
    /\ Len(shown) >= 2 /\ pos = Len(shown) + 1

\* C10: a source that cannot be opened (no path given included) makes the
\* program fail with OpenError and exit code 1 before any frame is decoded,
\* any tracker created, anything displayed or any key awaited; Preview and
\* Playing are never entered.
C10_OpenError ==
    /\ ~IsOpened(file) =>
           /\ pc \in {"main", "exit"}
           /\ pc = "exit" => error = "OpenError" /\ exit_code = 1
           /\ pos = 0 /\ mat = -1
           /\ all_trackers = << >>
           /\ shown = << >> /\ ~preview_shown
           /\ key = NoKey
    /\ error = "OpenError" => ~IsOpened(file)

\* C10 witness: the program was started without a path and has exited
C10_Witness == pc = "exit" /\ file = "" /\ exit_code = 1

(* ------------------- videos of several frame sizes -------------------- *)

\* frame sizes below, at and above the desired size in either dimension
Sizes == {640, 1024, 1025, 1920, 2048} \X {480, 768, 769, 1080}

\* the start of main on a short video of any of these sizes
InitSizes ==
    /\ file = "input_3750.mp4"
    /\ src_frames \in 1 .. 2
    /\ src_fps \in FpsChoices
    /\ src_size \in Sizes
    /\ scene = "any"
    /\ load = "light"
    /\ Boot

SpecSizes == InitSizes /\ [][Next]_vars

(* -------------------------- progress report --------------------------- *)

\* the frame indices the specification reports: the multiples of round(fps)
\* and the final frame
IsReportFrame(i) == i % fps_rounded = 0 \/ i = total_frames - 1

\* the frame indices to report among the first n frames, in order
ReportFrames(n) ==
    SelectSeq([k \in 1 .. n |-> k - 1], LAMBDA i : IsReportFrame(i))

\* a 30 fps video of 90 frames was played to its end
Played30 ==
    /\ fps_rounded = 30 /\ total_frames = 90
    /\ pc \in {"done", "exit"} /\ Len(shown) = 90

\* the progress reports are those of the multiples of round(fps) and of the
\* final frame among the frames decoded so far
ReportsByRule == reports = ReportFrames(pos)

\* a step that prints a progress report leaves the frame counter, the
\* deadline and the trackers alone
ReportIsPassive ==
    reports' /= reports =>
        /\ Len(reports') = Len(reports) + 1
        /\ frame_counter' = frame_counter
        /\ time_to_show_next_frame' = time_to_show_next_frame
        /\ all_trackers' = all_trackers

\* C11 as stated: a progress report is printed exactly for the frames whose
\* index is a multiple of round(fps) and for the final frame; a 30 fps video
\* of 90 frames gets 3 reports at multiples of 30 and a final report at
\* frame 90.
C11_ReportAt90 ==
    /\ ReportsByRule
    /\ Played30 => reports = <<0, 30, 60, 90>>

\* C11, amended: a progress report is printed exactly for the frames whose
\* index is a multiple of round(fps) and for the final frame; a 30 fps video
\* of 90 frames gets 3 reports at the indices 0, 30 and 60 and a final
\* report at index 89, its last frame; printing a report changes neither
\* the frame counter nor the deadline nor a tracker.
C11_ReportAt89 ==
    /\ [](ReportsByRule /\ (Played30 => reports = <<0, 30, 60, 89>>))
    /\ [][ReportIsPassive]_vars

\* C11 witness: the 90 frames were played and four reports printed
C11_Witness == Played30 /\ pc = "done" /\ Len(reports) = 4

(* ---------------------------- display size ---------------------------- *)

\* the source frames fit into the desired size
Fits(size) == size[1] <= DesiredWidth /\ size[2] <= DesiredHeight

\* C12: once the video is opened the display size has both dimensions
\* within 1024x768, and it is the source size when that already fits.
C12_WithinViewport ==
    (IsOpened(file) /\ pc /= "main") =>
        /\ Fits(desired_size)
        /\ Fits(src_size) => desired_size = src_size

\* the display size is not assigned once initialize_video has returned
C12_ComputedOnce == [][pc /= "main" => desired_size' = desired_size]_vars

(* ------------------------ frames fed to trackers ----------------------- *)

\* C13 as stated: the source is not rewound after the preview frame is
\* decoded, and no tracker is advanced (initialised or updated) on the same
\* source frame twice; frame 0 is never passed to update.
C13_NoFrameTwice ==
    /\ pc \in {"trackers", "preview", "show_video"} => pos = 1
    /\ \A i \in Trackers : refed[i] = {}

\* C13, amended: the source is rewound to frame 0 after the preview frame is
\* decoded, playback starts with frame 0 decoded again, and every tracker,
\* initialised on frame 0, is updated on frame 0 once more; no tracker is
\* advanced twice on any other source frame.
C13_FirstFrameTwice ==
    /\ pc \in {"trackers", "preview", "show_video"} => pos = 0 /\ mat = 0
    /\ Len(shown) > 0 => shown[1] = 0
    /\ \A i \in Trackers :
         /\ refed[i] \subseteq {0}
         /\ (frame_counter > 0 \/ outcome[i] \in {"ok", "fail"}) =>
                refed[i] = {0}
         /\ last_fed[i] <= mat \/ mat = -1

\* C13 witness: a tracker was updated on frames 0, 1 and 2, frame 0 being
\* the frame it was initialised on
C13_Witness ==
    /\ pc = "draw" /\ frame_counter = 2
    /\ \E i \in Trackers : refed[i] = {0} /\ last_fed[i] = 2

(* ----------------------- the grace window at 30 fps --------------------- *)

\* tracker i has been through the update round of frame f
Processed(i, f) ==
    \/ frame_counter > f
    \/ /\ frame_counter = f
       /\ pc \in {"update", "draw", "wait", "paused", "exit"}
       /\ outcome[i] /= "none"

\* tracker i of a 30 fps video was last found on frame 10
LastSeenAt10(i) == fps_rounded = 30 /\ all_trackers[i].last_valid = 10

\* C14 as stated: at 30 fps an object last seen on frame 10 whose update
\* fails on every later frame is still Active after frame 101 was processed
\* and is Lost once frame 102 was processed.
C14_LostAt102 ==
    \A i \in Trackers :
        LastSeenAt10(i) =>
            /\ ~Processed(i, 102) => Active(i)
            /\ Processed(i, 102) => ~Active(i)

\* C14, amended: at 30 fps (a grace window of 90 frames) an object last
\* seen on frame 10 whose update fails on every later frame is still Active
\* after frame 100 was processed and is Lost once frame 101 was processed.
C14_LostAt101 ==
    \A i \in Trackers :
        LastSeenAt10(i) =>
            /\ ~Processed(i, 101) => Active(i)
            /\ Processed(i, 101) => ~Active(i)

\* C14 witness: the failed update on frame 101 has just made the object Lost
C14_Witness ==
    \E i \in Trackers :
        /\ LastSeenAt10(i) /\ misses[i] = 91
        /\ frame_counter = 101 /\ outcome[i] = "fail" /\ ~Active(i)

(* ------------------------- order within a frame ----------------------- *)

\* the place of a call in the order decode, resize, tracker updates, render
\* boxes, key wait, present
Rank(c) ==
    CASE c[1] = "decode"    -> 1
      [] c[1] = "resize"    -> 2
      [] c[1] = "update"    -> 3
      [] c[1] = "rectangle" -> 4
      [] c[1] = "waitKey"   -> 5
      [] c[1] = "imshow"    -> 6

\* the arguments of the calls of one kind made for the current frame
Args(what) ==
    LET calls == SelectSeq(trace, LAMBDA c : c[1] = what)
    IN  [n \in 1 .. Len(calls) |-> calls[n][2]]

\* the trackers of a set in the order of the registry
InRegistryOrder(set) ==
    SelectSeq([i \in 1 .. Len(all_trackers) |-> i], LAMBDA i : i \in set)

\* the frame in hand has been presented
Presented == trace /= << >> /\ trace[Len(trace)][1] = "imshow"

\* C15: the calls made for a frame come in the order decode, resize, tracker
\* updates, boxes, key wait, present; the objects Active when the frame was
\* decoded get one update each, in registry order, all of them before a box
\* is drawn; the frame counter is the number of frames presented.
C15_StepOrder ==
    /\ \A a \in 1 .. Len(trace) - 1 : Rank(trace[a]) <= Rank(trace[a + 1])
    /\ Len(Args("decode")) = (IF trace = << >> THEN 0 ELSE 1)
    /\ Args("resize") =
           (IF mat /= -1 /\ trace /= << >> /\ src_size /= desired_size
            THEN <<mat>> ELSE << >>)
    /\ Args("update") = InRegistryOrder(alive \cap 1 .. (ti - 1))
    /\ pc \in {"wait", "paused"} =>
           /\ Args("update") = InRegistryOrder(alive)
           /\ Args("rectangle") = InRegistryOrder(drawn)
    /\ Presented =>
           /\ Args("imshow") = <<mat>> /\ Args("decode") = <<mat>>
           /\ Args("update") = InRegistryOrder(alive)
           /\ Args("rectangle") = InRegistryOrder(drawn)
           /\ Args("waitKey") /= << >>
           /\ shown[Len(shown)] = mat
    /\ frame_counter = Len(shown)
    /\ pc = "read" /\ frame_counter > 0 => Presented

\* C15 witness: a frame was presented for which one tracker was skipped as
\* Lost and another updated and drawn
C15_Witness ==
    /\ Presented /\ pc = "read"
    /\ alive /= {} /\ alive /= Trackers /\ drawn /= {}

(* --------------------------- falling behind --------------------------- *)

\* the clock read of line 273 found no whole millisecond left to the deadline
Behind == ToMilliseconds(time_to_show_next_frame - now) <= 0

\* how far the clock is past the deadline, in ticks
Lag == now - time_to_show_next_frame

\* C16 as stated: once the work on a frame took longer than frame_duration,
\* playback is behind its deadline at every later frame until a pause or the
\* end of the stream, however fast the later frames are processed.
C16_BehindForGood == (pc = "wait" /\ slow /= "none") => Behind

\* C16, amended: a frame whose work took longer than frame_duration is
\* behind its deadline; a frame that is behind waits one millisecond and is
\* presented, no frame is skipped, and the deadline moves on by a whole
\* frame_duration, so that the lag shrinks by frame_duration less one
\* millisecond per frame presented late and playback catches up when the
\* later frames are processed fast enough.
C16_LagShrinks ==
    /\ []((pc = "wait" /\ slow = "this") => Behind)
    /\ []((pc = "wait" /\ Behind) => number_of_milliseconds_to_pause = 1)
    /\ [](shown = FirstFrames(Len(shown)))
    /\ [][(pc = "wait" /\ Behind /\ pc' = "read") =>
             /\ shown' = Append(shown, mat)
             /\ Lag' = Lag - (frame_duration - TicksPerMs)]_vars

\* C16 witness: after a frame whose work took longer than frame_duration,
\* and without a pause since, a frame reaches its wait ahead of its deadline
C16_Witness ==
    /\ pc = "wait" /\ slow = "earlier" /\ ~Behind
    /\ number_of_milliseconds_to_pause > 1

(* ------------------------- the bounded key wait ------------------------ *)

\* the timeouts of the bounded key waits made for the current frame
BoundedWaits == SelectSeq(Args("waitKey"), LAMBDA t : t /= -1)

\* the whole milliseconds left to the deadline
Remaining == ToMilliseconds(time_to_show_next_frame - now)

\* C17: every iteration calls the bounded key wait exactly once, after the
\* boxes are drawn, with the whole milliseconds left to the deadline when
\* that is positive and with 1 otherwise; the timeout is never below 1.
C17_BoundedWait ==
    /\ pc \in {"update", "draw", "wait"} => BoundedWaits = << >>
    /\ pc = "wait" =>
           /\ number_of_milliseconds_to_pause >= 1
           /\ number_of_milliseconds_to_pause =
                 (IF Remaining > 0 THEN Remaining ELSE 1)
    /\ (pc = "paused" \/ Presented \/ error = "UserQuit") =>
           /\ BoundedWaits = <<number_of_milliseconds_to_pause>>
           /\ number_of_milliseconds_to_pause >= 1

\* C17 witness: a frame that reached its wait behind schedule was presented
\* after a wait of one millisecond
C17_Witness ==
    /\ Presented /\ pc = "read" /\ frame_counter >= 2
    /\ slow = "earlier" /\ BoundedWaits = <<1>>
    /\ now > time_to_show_next_frame

(* -------------------------- tracker registry -------------------------- *)

\* C18: an object's last_seen never exceeds the current frame index and
\* never decreases; the registry keeps its size once initialize_trackers has
\* filled it; the update of one object leaves every other object as it was.
C18_Registry ==
    /\ [](\A i \in Trackers : all_trackers[i].last_valid <= frame_counter)
    /\ [][/\ pc \notin {"main", "first", "trackers"} =>
               Len(all_trackers') = Len(all_trackers)
          /\ \A i \in Trackers :
               /\ all_trackers'[i].last_valid >= all_trackers[i].last_valid
               /\ all_trackers'[i].name = all_trackers[i].name
               /\ all_trackers'[i] /= all_trackers[i] =>
                      /\ pc = "update" /\ i = ti
                      /\ \A j \in Trackers \ {i} :
                           /\ all_trackers'[j] = all_trackers[j]
                           /\ outcome'[j] = outcome[j]]_vars

\* C18 witness: on a late frame one object is Lost with an old last_seen and
\* another was just found
C18_Witness ==
    /\ pc = "draw" /\ frame_counter >= 4 /\ Len(all_trackers) = 2
    /\ ~all_trackers[1].is_valid /\ all_trackers[1].last_valid = 0
    /\ all_trackers[2].last_valid = frame_counter

(* ----------------------------- termination ---------------------------- *)

\* the states of the playback state machine
Playing == pc \in {"read", "update", "draw", "wait"}
Paused == pc = "paused"
Finished == pc \in {"done", "exit"}

\* C19: on a finite source, and with a key arriving at every unbounded key
\* wait, playback reaches Finished and main returns; Playing is left only
\* for Paused or Finished, Paused only for Playing or Finished, and Finished
\* is not left.
C19_ReachesFinished ==
    /\ Playing ~> Finished
    /\ <>(pc = "exit")
    /\ [][/\ Playing => (Playing' \/ Paused' \/ Finished')
          /\ Paused => (Paused' \/ Playing' \/ Finished')
          /\ Finished => Finished']_vars

\* C19 witness: a video was played to its end after a pause
C19_Witness ==
    /\ pc = "done" /\ paused
    /\ Len(shown) = src_frames /\ src_frames = LiveFrames

====
